---- MODULE Spec2Model ----
(***************************************************************************)
(* The Room Durable Object of pairlane (src/src/room.ts): role assignment, *)
(* the waiting queue of receivers, the active pair set and the signalling  *)
(* relay.  One action per handler of the class Room; every action is the   *)
(* whole handler, including the trailing broadcastPeers / fillSlots.       *)
(*                                                                         *)
(* Sockets are kept in the order ctx.getWebSockets() enumerates them (the  *)
(* order of acceptWebSocket).  A socket is "open" (readyState OPEN) or     *)
(* "closing": closed by the Room with close(1000, "replaced") and still    *)
(* enumerated until its close event has been handled.  A close started by  *)
(* the client is handled in one step: webSocketClose runs with the closing *)
(* socket no longer OPEN.                                                  *)
(*                                                                         *)
(* The Room instance stays in memory for the whole behaviour: config and   *)
(* activePairs are lost only with the instance, which Spec and SpecSignal  *)
(* do not let happen.                                                      *)
(*                                                                         *)
(* SpecTies lets joins share a millisecond, SpecLive adds fairness.        *)
(* SpecConfig adds the Worker route POST /api/rooms and the eviction of    *)
(* the Room instance.  SpecReceiver and SpecTransfer are the room page of  *)
(* the client (src/unnamed/part_006): the signalling handlers of the       *)
(* receiver, and the data channel between one sender and one receiver.     *)
(* SpecSender and SpecSend are the sender side of the same page: the peer  *)
(* contexts with their signalling, and the transmissions.                  *)
(* An async handler of the page is one step per stretch between awaits.    *)
(***************************************************************************)
EXTENDS Integers, Sequences, FiniteSets, TLC

\* ---- bounds of the model ----
MaxJoins == 4          \* admissions in a behaviour of Spec
MaxSignalJoins == 3    \* admissions in a behaviour of SpecSignal
MaxMC == 2             \* largest maxConcurrent given to POST /config
MaxSid == 1            \* largest sid of a relayed frame
MaxConfigJoins == 2    \* admissions in a behaviour of SpecConfig
MaxHalf == 3           \* posted maxConcurrent: from -MaxHalf / 2 to 10 + MaxHalf / 2
MaxPosts == 3          \* POST /api/rooms calls of the one source address
RateCeiling == 2       \* room creations the rate limit of the spec allows in a window
MaxRecvMsgs == 4       \* signalling frames the receiver page is sent
MaxRecvPeers == 2      \* senders of these frames
MaxRecvSid == 2        \* sids of these frames
MaxTieJoins == 3       \* sockets accepted when joins can share a millisecond
MaxLiveJoins == 3      \* sockets accepted in the room under fairness
MaxKey == 2            \* keys a page can hold
MaxFileLen == 3        \* bytes of a file
MaxTransfers == 1      \* files the sender transmits
ByteValues == 2        \* values of a byte
chunkSize == 2         \* bytes of a slice (16 * 1024 in the source)
MaxSendPeers == 1      \* receivers the sender page is paired with
MaxCtx == 2            \* peer contexts the sender page creates
MaxSendMsgs == 3       \* answer and candidate frames the sender page is sent
MaxSendSid == 2        \* sids of the candidate frames the sender page is sent
MaxSelections == 2     \* files selected on the sender page

\* ---- program constants ----
DEFAULT_MAX_CONCURRENT == 3
MAX_MAX_CONCURRENT == 10

\* A cid is the string of the query parameter; the empty string (?cid=) is
\* a cid too, and the only falsy one.  Cids are numbered in lexicographic
\* order, the empty string first.  NoCid stands for undefined (no map entry,
\* no creatorCid).
EmptyCid == 0
Cids == 0..MaxJoins
NoCid == -1
Truthy(cid) == cid # NoCid /\ cid # EmptyCid
Sids == 1..MaxSid
IvLen == 12            \* bytes of the IV at the head of an encrypted frame
TagLen == 16           \* bytes of the AES-GCM tag at its end

VARIABLES
    sockets,      \* ctx.getWebSockets(): sequence of attachments + readyState
    activePairs,  \* Room.activePairs: receiver cid -> offerer cid (NoCid: no entry)
    config,       \* Room.config: << >> is null, <<c>> is the record c
    storage,      \* ctx.storage "config": << >> or <<c>>
    now,          \* Date.now()
    nextId,       \* identity of the next accepted socket
    sent,         \* frames sent by the last handler, in order: [to, frame]
    ev,           \* the handler that ran last
    doneLog,      \* history: ids of sockets named by an accepted transfer-done
    repeated,     \* history: the last handler was an accepted transfer-done
                  \* naming a receiver socket whose state was done already
    posted,       \* history: the maxConcurrent of the last POST /api/rooms body
                  \* for this room, as <<v>>; << >> before any
    created       \* history: the POST /api/rooms calls of one source address
                  \* answered with a room id, within one window of the limit

roomVars == <<sockets, activePairs, config, storage, now, nextId, sent, ev, doneLog,
             repeated, posted, created>>

\* The receiver page of the room client (src/unnamed/part_006): its
\* signalling engine.  An async handler runs to its first await when its
\* message arrives and goes on, step by step, when what it awaits resolves;
\* other handlers run in between.
VARIABLES
    rPc,             \* receiverPcRef.current is set
    rPeerId,         \* receiverPeerIdRef.current (NoCid: null)
    rActiveSid,      \* receiverActiveSidRef.current (0: null)
    rRemoteDescSet,  \* receiverRemoteDescSetRef.current
    rPending,        \* receiverPendingCandidatesRef.current: the sids, in order
    rTasks,          \* the offer handlers in flight: [from, sid, pc, flushSid]
    rAdded,          \* history: the addIceCandidate calls, [sid, at], at being
                     \* receiverActiveSidRef.current at the call
    rAnswers,        \* history: the answers sent, [to, sid]
    rMsgs,           \* signalling frames received so far
    rEv              \* history: the last step of the signalling engine

recvVars == <<rPc, rPeerId, rActiveSid, rRemoteDescSet, rPending, rTasks, rAdded,
             rAnswers, rMsgs, rEv>>

\* The data channel of one sender/receiver pair (src/unnamed/part_006): the
\* transmission of the sender page and the reassembly of the receiver page.
\* Bytes are numbers below ByteValues, a file and a frame are sequences of
\* bytes.  The channel is reliable and ordered.
VARIABLES
    senderKey,       \* cryptoKeyRef.current of the sender page (0: null)
    receiverKey,     \* cryptoKeyRef.current of the receiver page (0: null)
    booted,          \* the pages whose boot() has set the key
    sendFile,        \* the file of the running sendFileToPeer
    sendOffset,      \* its offset
    sending,         \* a sendFileToPeer is between its meta and its done
    dc,              \* the frames sent and not yet delivered
    incomingMeta,    \* incomingMetaRef.current: << >> (null) or <<meta>>
    recvChunks,      \* recvChunksRef.current
    recvBytes,       \* recvBytesRef.current
    download,        \* the download state: << >> (null) or <<[name, size, blob]>>
    status,          \* the status line of the receiver page
    decrypting,      \* the frames whose crypto.subtle.decrypt is pending
    sentFiles,       \* history: the files handed to sendFileToPeer; a meta
                     \* names its file by the position in this list
    failed,          \* history: a decryptChunk has thrown since the last meta
    dEv              \* history: the last step on the data channel

xferVars == <<senderKey, receiverKey, booted, sendFile, sendOffset, sending, dc,
             incomingMeta, recvChunks, recvBytes, download, status, decrypting,
             sentFiles, failed, dEv>>

\* The sender page of the room client (src/unnamed/part_006), its role being
\* offerer: the peer contexts, their signalling and the transmissions.  A
\* peer context is named by its number in the order of creation.
VARIABLES
    offererPeers,    \* offererPeersRef.current: peerId -> << >> or <<OffererPeer>>
    ctxCount,        \* the peer contexts created so far
    closedCtx,       \* history: the contexts whose pc and dc have been closed
    sTasks,          \* the handlers in flight that await the connection of a
                     \* context, in the order of their pending calls
    offers,          \* history: the offers sent, [to, sid, ctx]
    applied,         \* history: the answers handed to setRemoteDescription,
                     \* [ctx, sid, at, of]: at is activeSid at the call, of
                     \* the context whose offer the answer responds to
    queued,          \* history: the candidates pushed on pendingCandidates, [ctx, cand]
    added,           \* history: the addIceCandidate calls,
                     \* [ctx, cand, sid, at, remoteDescSet, buffered]
    sMsgs,           \* answer and candidate frames received so far
    wsOpen,          \* the signalling socket is open
    sendIntent,      \* sendIntentRef.current
    selectedFile,    \* selectedFileRef.current: 0 (null) or the number of the selection
    selections,      \* history: the sizes of the files selected
    xfers,           \* the sendFileToPeer calls in flight: [x, ctx, peerId, size, offset]
    xferLog,         \* history: the sendFileToPeer calls, [ctx, sel, peerId]; x is
                     \* the position
    chanLog,         \* history: the frames sent on the data channels, [ctx, x, type, offset]
    wsDone           \* history: the transfer-done frames sent, [peerId, x]

sendVars == <<offererPeers, ctxCount, closedCtx, sTasks, offers, applied, queued, added,
             sMsgs, wsOpen, sendIntent, selectedFile, selections, xfers, xferLog,
             chanLog, wsDone>>

clientVars == <<recvVars, xferVars, sendVars>>

vars == <<roomVars, clientVars>>

\* ---- helpers on sequences ----
SeqToSet(q) == {q[i] : i \in 1..Len(q)}

Min2(a, b) == IF a < b THEN a ELSE b

Max2(a, b) == IF a > b THEN a ELSE b

Take(q, n) == SubSeq(q, 1, Min2(n, Len(q)))

\* ---- normalizeMaxConcurrent ----
\* The maxConcurrent of a JSON body: << >> when the member is absent or is not
\* a finite number (null, a string, a boolean), <<h>> for the number h / 2.
IsFinite(value) == value # << >>

Floor(value) == value[1] \div 2

Num(n) == <<2 * n>>

\* no ceiling on the concurrency
normalizeWithoutCeiling(value) ==
    Max2(1, IF IsFinite(value) THEN Floor(value) ELSE DEFAULT_MAX_CONCURRENT)

normalizeMaxConcurrent(value) ==
    LET base == IF IsFinite(value) THEN Floor(value) ELSE DEFAULT_MAX_CONCURRENT
    IN  Min2(MAX_MAX_CONCURRENT, Max2(1, base))

\* POST /api/rooms: the maxConcurrent the Worker puts into the body of the
\* Room's POST /config
apiMaxConcurrent(value) == IF IsFinite(value) THEN Max2(1, Floor(value)) ELSE 3

\* ---- socket queries ----
IsOpen(s) == s.ready = "open"

openSockets(S) == SelectSeq(S, IsOpen)

IsOfferer(s) == s.role = "offerer"

IsAnswerer(s) == s.role = "answerer"

\* first open socket whose attachment has role offerer, as a sequence of
\* length 0 (null) or 1
getOffererSocket(S) == Take(SelectSeq(openSockets(S), IsOfferer), 1)

answererSockets(S) == SelectSeq(openSockets(S), IsAnswerer)

socketByCid(S, cid) == Take(SelectSeq(openSockets(S), LAMBDA s : s.cid = cid), 1)

hasOpenSocket(S, cid, role) ==
    \E i \in 1..Len(S) : IsOpen(S[i]) /\ S[i].cid = cid /\ S[i].role = role

setAnswererState(S, id, state) ==
    [i \in 1..Len(S) |-> IF S[i].id = id THEN [S[i] EXCEPT !.state = state] ELSE S[i]]

\* ---- frames ----
Frame(to, f) == [to |-> to, frame |-> f]

broadcastPeers(S) ==
    LET o == openSockets(S)
    IN  [i \in 1..Len(o) |-> Frame(o[i].id, [type |-> "peers", count |-> Len(o)])]

\* ---- fillSlots ----
IsActive(s) == s.state = "active"

IsWaiting(s) == s.state = "waiting"

\* Array.prototype.sort with (a, b) => a.joinedAt - b.joinedAt is stable:
\* x goes behind every element whose joinedAt is not greater
InsertByJoinedAt(q, x) ==
    LET k == Cardinality({i \in 1..Len(q) : q[i].joinedAt <= x.joinedAt})
    IN  SubSeq(q, 1, k) \o <<x>> \o SubSeq(q, k + 1, Len(q))

\* the waiting list in descending order of joinedAt
RECURSIVE SortDescending(_)
SortDescending(q) ==
    IF q = << >> THEN << >>
    ELSE LET k == CHOOSE i \in 1..Len(q) : \A j \in 1..Len(q) : q[j].joinedAt <= q[i].joinedAt
         IN  <<q[k]>> \o SortDescending(SubSeq(q, 1, k - 1) \o SubSeq(q, k + 1, Len(q)))

RECURSIVE SortByJoinedAt(_)
SortByJoinedAt(q) ==
    IF q = << >> THEN << >>
    ELSE InsertByJoinedAt(SortByJoinedAt(SubSeq(q, 1, Len(q) - 1)), q[Len(q)])

activeSockets(S) == SelectSeq(answererSockets(S), IsActive)

waitingSockets(S) == SortByJoinedAt(SelectSeq(answererSockets(S), IsWaiting))

maxConcurrentOf(cfg) ==
    IF cfg = << >> THEN DEFAULT_MAX_CONCURRENT ELSE cfg[1].maxConcurrent

\* the free slots counted without the receivers that are active
availableIgnoringActive(S, cfg) == maxConcurrentOf(cfg)

available(S, cfg) == maxConcurrentOf(cfg) - Len(activeSockets(S))

\* one promotion per call, whether a slot is free or not
toActivateOne(S, cfg) == Take(waitingSockets(S), 1)

toActivate(S, cfg) ==
    IF available(S, cfg) <= 0 THEN << >> ELSE Take(waitingSockets(S), available(S, cfg))

\* the frames of one loop iteration: start to the receiver, start{peerId}
\* to the offerer
StartFrames(offerer, a) ==
    << Frame(a.id, [type |-> "start"]),
       Frame(offerer.id, [type |-> "start", peerId |-> a.cid]) >>

RECURSIVE FlatStart(_, _)
FlatStart(offerer, q) ==
    IF q = << >> THEN << >>
    ELSE StartFrames(offerer, q[1]) \o FlatStart(offerer, Tail(q))

\* activePairs rebuilt from the promoted sockets alone
pairsOfPromotedOnly(P, act, offererCid) ==
    [c \in Cids |->
        IF Truthy(c) /\ \E i \in 1..Len(act) : act[i].cid = c THEN offererCid ELSE NoCid]

\* activePairs.set(attachment.cid, offererCid) for the promoted sockets whose
\* cid is truthy
pairsAfterFill(P, act, offererCid) ==
    [c \in Cids |->
        IF Truthy(c) /\ \E i \in 1..Len(act) : act[i].cid = c THEN offererCid ELSE P[c]]

\* fillSlots: the new sockets, the new activePairs and the frames sent
fillSlots(S, P, cfg) ==
    LET off == getOffererSocket(S)
    IN  IF off = << >> \/ ~Truthy(off[1].cid)
        THEN [sockets |-> S, pairs |-> P, out |-> << >>]
        ELSE LET act == toActivate(S, cfg)
                 ids == {act[i].id : i \in 1..Len(act)}
             IN  [sockets |-> [i \in 1..Len(S) |->
                                 IF S[i].id \in ids
                                 THEN [S[i] EXCEPT !.state = "active"] ELSE S[i]],
                  pairs |-> pairsAfterFill(P, act, off[1].cid),
                  out |-> FlatStart(off[1], act)]

\* ---- admission ----
ensureConfig(cfg, sto) ==
    IF cfg # << >> THEN cfg
    ELSE IF sto # << >>
         THEN <<[sto[1] EXCEPT !.maxConcurrent = normalizeMaxConcurrent(Num(@))]>>
         ELSE <<[maxConcurrent |-> DEFAULT_MAX_CONCURRENT, creatorCid |-> NoCid]>>

\* admission without closing the prior socket of the cid
keepDuplicateClient(S, clientId) == S

closeDuplicateClient(S, clientId) ==
    [i \in 1..Len(S) |->
        IF S[i].cid = clientId /\ IsOpen(S[i])
        THEN [S[i] EXCEPT !.ready = "closing"] ELSE S[i]]

\* role assignment by arrival alone, the creator pin ignored
pickRoleFirstCome(S, cfg, clientId) ==
    IF getOffererSocket(S) = << >> THEN "offerer" ELSE "answerer"

\* role assignment that does not look for an open offerer
pickRoleIgnoringOfferer(S, cfg, clientId) ==
    LET creatorCid == IF cfg = << >> THEN NoCid ELSE cfg[1].creatorCid
    IN  IF Truthy(creatorCid)
        THEN (IF creatorCid = clientId THEN "offerer" ELSE "answerer")
        ELSE "offerer"

pickRole(S, cfg, clientId) ==
    LET creatorCid == IF cfg = << >> THEN NoCid ELSE cfg[1].creatorCid
    IN  IF Truthy(creatorCid)
        THEN (IF creatorCid = clientId THEN "offerer" ELSE "answerer")
        ELSE IF getOffererSocket(S) = << >> THEN "offerer" ELSE "answerer"

\* admission that fills the slots before it sends role, wait and peers
FetchFillFirst(clientId, t) ==
    /\ nextId <= MaxJoins
    /\ LET cfg == ensureConfig(config, storage)
           S1 == closeDuplicateClient(sockets, clientId)
           role == pickRole(S1, cfg, clientId)
           server == [id |-> nextId, cid |-> clientId, role |-> role,
                      state |-> IF role = "answerer" THEN "waiting" ELSE "none",
                      joinedAt |-> t, ready |-> "open"]
           S2 == Append(S1, server)
           fill == fillSlots(S2, activePairs, cfg)
       IN  /\ config' = cfg
           /\ sockets' = fill.sockets
           /\ activePairs' = fill.pairs
           /\ sent' = fill.out
                      \o << Frame(nextId, [type |-> "role", role |-> role, cid |-> clientId]) >>
                      \o (IF role = "answerer"
                          THEN << Frame(nextId, [type |-> "wait"]) >> ELSE << >>)
                      \o broadcastPeers(S2)
    /\ now' = t
    /\ nextId' = nextId + 1
    /\ ev' = "fetch"
    /\ UNCHANGED <<posted, created, clientVars>>
    /\ repeated' = FALSE
    /\ UNCHANGED <<storage, doneLog>>

\* Room.fetch for a websocket upgrade with ?cid=clientId, Date.now() = t
Fetch(clientId, t) ==
    /\ nextId <= MaxJoins
    /\ LET cfg == ensureConfig(config, storage)
           S1 == closeDuplicateClient(sockets, clientId)
           role == pickRole(S1, cfg, clientId)
           server == [id |-> nextId, cid |-> clientId, role |-> role,
                      state |-> IF role = "answerer" THEN "waiting" ELSE "none",
                      joinedAt |-> t, ready |-> "open"]
           S2 == Append(S1, server)
           fill == fillSlots(S2, activePairs, cfg)
       IN  /\ config' = cfg
           /\ sockets' = fill.sockets
           /\ activePairs' = fill.pairs
           /\ sent' = << Frame(nextId, [type |-> "role", role |-> role, cid |-> clientId]) >>
                      \o (IF role = "answerer"
                          THEN << Frame(nextId, [type |-> "wait"]) >> ELSE << >>)
                      \o broadcastPeers(S2)
                      \o fill.out
    /\ now' = t
    /\ nextId' = nextId + 1
    /\ ev' = "fetch"
    /\ UNCHANGED <<posted, created, clientVars>>
    /\ repeated' = FALSE
    /\ UNCHANGED <<storage, doneLog>>

\* ---- webSocketMessage ----
SocketIds(S) == {S[i].id : i \in 1..Len(S)}

SocketOf(S, id) == CHOOSE s \in SeqToSet(S) : s.id = id

\* transfer-done{peerId} received on socket ws
TransferDone(ws, peerId) ==
    /\ ws \in SocketIds(openSockets(sockets))
    /\ LET attachment == SocketOf(sockets, ws)
           peerSocket == socketByCid(sockets, peerId)
           S1 == IF peerSocket # << >>
                 THEN setAnswererState(sockets, peerSocket[1].id, "done") ELSE sockets
           fill == fillSlots(S1, activePairs, config)
       IN  IF attachment.role # "offerer"
           THEN /\ sent' = << >>
                /\ repeated' = FALSE
                /\ UNCHANGED <<sockets, activePairs, doneLog>>
           ELSE /\ sockets' = fill.sockets
                /\ repeated' = /\ peerSocket # << >>
                                /\ IsAnswerer(peerSocket[1])
                                /\ peerSocket[1].state = "done"
                /\ activePairs' = fill.pairs
                /\ sent' = fill.out
                /\ doneLog' = IF peerSocket # << >>
                              THEN doneLog \cup {peerSocket[1].id} ELSE doneLog
    /\ ev' = "transfer-done"
    /\ UNCHANGED <<posted, created, clientVars>>
    /\ UNCHANGED <<config, storage, now, nextId>>

\* the pair rule applied to frames of the offerer only
relayAuthorizedOffererSide(P, attachment, type, to) ==
    CASE type = "offer" ->
           attachment.role = "offerer" /\ to \in Cids /\ P[to] = attachment.cid
      [] type = "answer" -> attachment.role = "answerer"
      [] type = "candidate" ->
           attachment.role = "offerer" => (to \in Cids /\ P[to] = attachment.cid)

\* the role rule without the pair rule
relayAuthorizedByRole(P, attachment, type, to) ==
    CASE type = "offer" -> attachment.role = "offerer"
      [] type = "answer" -> attachment.role = "answerer"
      [] type = "candidate" -> TRUE

\* the role-and-pair rule of offer / answer / candidate
relayAuthorized(P, attachment, type, to) ==
    CASE type = "offer" ->
           attachment.role = "offerer" /\ to \in Cids /\ P[to] = attachment.cid
      [] type = "answer" ->
           attachment.role = "answerer" /\ P[attachment.cid] = to
      [] type = "candidate" ->
           IF attachment.role = "offerer"
           THEN to \in Cids /\ P[to] = attachment.cid
           ELSE attachment.role = "answerer" /\ P[attachment.cid] = to

\* the frame relayed for a message of the given type from socket `attachment`
relayPayload(attachment, type, sid) ==
    [type |-> type, from |-> attachment.cid, sid |-> sid]

relayOut(S, P, attachment, type, to, sid) ==
    LET target == socketByCid(S, to)
    IN  IF relayAuthorized(P, attachment, type, to) /\ target # << >>
        THEN << Frame(target[1].id, relayPayload(attachment, type, sid)) >>
        ELSE << >>

\* offer / answer / candidate {to, sid} received on socket ws
Relay(ws, type, to, sid) ==
    /\ ws \in SocketIds(openSockets(sockets))
    /\ sent' = relayOut(sockets, activePairs, SocketOf(sockets, ws), type, to, sid)
    /\ ev' = "relay"
    /\ UNCHANGED <<posted, created, clientVars>>
    /\ repeated' = FALSE
    /\ UNCHANGED <<sockets, activePairs, config, storage, now, nextId, doneLog>>

\* a frame that is not JSON, or JSON of another type
InvalidFrame(ws) ==
    /\ ws \in SocketIds(openSockets(sockets))
    /\ sent' = << >>
    /\ ev' = "invalid"
    /\ UNCHANGED <<posted, created, clientVars>>
    /\ repeated' = FALSE
    /\ UNCHANGED <<sockets, activePairs, config, storage, now, nextId, doneLog>>

\* ---- webSocketClose ----
RECURSIVE WaitFrames(_)
WaitFrames(q) ==
    IF q = << >> THEN << >>
    ELSE << Frame(q[1].id, [type |-> "wait"]) >> \o WaitFrames(Tail(q))

\* the reset of the receivers that are active, the others left as they are
resetActiveOnly(S) ==
    [i \in 1..Len(S) |->
        IF IsOpen(S[i]) /\ IsAnswerer(S[i]) /\ IsActive(S[i])
        THEN [S[i] EXCEPT !.state = "waiting"] ELSE S[i]]

resetAnswerers(S) ==
    [i \in 1..Len(S) |->
        IF IsOpen(S[i]) /\ IsAnswerer(S[i]) THEN [S[i] EXCEPT !.state = "waiting"] ELSE S[i]]

hasReplacement(S, attachment) ==
    Truthy(attachment.cid) /\ hasOpenSocket(S, attachment.cid, attachment.role)

\* webSocketClose(ws) with ws not OPEN in S: the new sockets, the new
\* activePairs and the frames sent
webSocketClose(S, P, cfg, attachment) ==
    IF hasReplacement(S, attachment)
    THEN [sockets |-> S, pairs |-> P, out |-> broadcastPeers(S)]
    ELSE IF attachment.role = "answerer"
    THEN LET P1 == IF Truthy(attachment.cid)
                   THEN [P EXCEPT ![attachment.cid] = NoCid] ELSE P
             offerer == getOffererSocket(S)
             left == IF offerer # << >> /\ Truthy(attachment.cid)
                     THEN << Frame(offerer[1].id,
                                   [type |-> "peer-left", peerId |-> attachment.cid]) >>
                     ELSE << >>
             fill == fillSlots(S, P1, cfg)
         IN  [sockets |-> fill.sockets, pairs |-> fill.pairs,
              out |-> left \o fill.out \o broadcastPeers(fill.sockets)]
    ELSE LET S1 == resetAnswerers(S)
         IN  [sockets |-> S1, pairs |-> [c \in Cids |-> NoCid],
              out |-> WaitFrames(answererSockets(S)) \o broadcastPeers(S1)]

RemoveSocket(S, id) == SelectSeq(S, LAMBDA s : s.id # id)

MarkClosed(S, id) ==
    [i \in 1..Len(S) |-> IF S[i].id = id THEN [S[i] EXCEPT !.ready = "closing"] ELSE S[i]]

CloseEffect(ws) ==
    LET S0 == MarkClosed(sockets, ws)
        r == webSocketClose(S0, activePairs, config, SocketOf(S0, ws))
    IN  /\ sockets' = RemoveSocket(r.sockets, ws)
        /\ activePairs' = r.pairs
        /\ sent' = r.out
        /\ doneLog' = doneLog \ {ws}
        /\ ev' = "close"
        /\ UNCHANGED <<posted, created, clientVars>>
        /\ repeated' = FALSE
        /\ UNCHANGED <<config, storage, now, nextId>>

\* the client closes an open socket (or the connection drops): webSocketClose
\* runs with the socket no longer OPEN
ClientClose(ws) ==
    /\ ws \in SocketIds(openSockets(sockets))
    /\ CloseEffect(ws)

\* the close event of a socket the Room closed as "replaced"
ReplacedClose(ws) ==
    /\ ws \in SocketIds(sockets) \ SocketIds(openSockets(sockets))
    /\ CloseEffect(ws)

\* ---- webSocketError ----
WebSocketError ==
    /\ sockets # << >>
    /\ sent' = broadcastPeers(sockets)
    /\ ev' = "error"
    /\ UNCHANGED <<posted, created, clientVars>>
    /\ repeated' = FALSE
    /\ UNCHANGED <<sockets, activePairs, config, storage, now, nextId, doneLog>>

\* ---- the room ----
CreatorCids == {NoCid, 1}

\* The Room compares cids for equality and truthiness only, so the cids no
\* socket and no activePairs entry holds are interchangeable: a join uses a
\* cid in use (a reconnect), the empty cid, the creator's cid, or the least
\* of the other unused ones.
UsedCids ==
    {sockets[i].cid : i \in 1..Len(sockets)} \cup {c \in Cids : activePairs[c] # NoCid}

CreatorOf(cfg) == IF cfg = << >> THEN NoCid ELSE cfg[1].creatorCid

FreshCids == {c \in Cids : Truthy(c) /\ c \notin UsedCids /\ c # CreatorOf(storage)}

JoinCids ==
    UsedCids \cup {EmptyCid} \cup ({CreatorOf(storage)} \cap Cids)
        \cup {c \in FreshCids : \A d \in FreshCids : c <= d}

\* Room.fetch for POST /config with body {maxConcurrent: m, creatorCid: c}
RoomPostConfig(m, c) ==
    /\ config' = <<[maxConcurrent |-> normalizeMaxConcurrent(m), creatorCid |-> c]>>
    /\ storage' = config'
    /\ sent' = << >>
    /\ ev' = "config"
    /\ repeated' = FALSE
    /\ UNCHANGED <<sockets, activePairs, now, nextId, doneLog, clientVars>>

\* POST /api/rooms with body {maxConcurrent: v, creatorCid: c}, the room id
\* it generates being the id of this room
ApiRooms(v, c) ==
    /\ created < MaxPosts
    /\ RoomPostConfig(Num(apiMaxConcurrent(v)), c)
    /\ posted' = <<v>>
    /\ created' = created + 1

\* POST /api/rooms generating the id of another room: this room sees nothing
ApiRoomsElsewhere ==
    /\ created < MaxPosts
    /\ created' = created + 1
    /\ sent' = << >>
    /\ ev' = "api"
    /\ repeated' = FALSE
    /\ UNCHANGED <<sockets, activePairs, config, storage, now, nextId, doneLog, posted, clientVars>>

\* POST /api/rooms with maxConcurrent the integer m, for a room id no client
\* knows yet
PostConfig(m, c) ==
    /\ storage = << >>
    /\ sockets = << >>
    /\ nextId = 1
    /\ ApiRooms(Num(m), c)

\* The Room instance is evicted from memory and constructed again: the
\* fields take their initial values, the sockets and the storage stay.
Revive ==
    /\ config # << >> \/ \E c \in Cids : activePairs[c] # NoCid
    /\ config' = << >>
    /\ activePairs' = [c \in Cids |-> NoCid]
    /\ sent' = << >>
    /\ ev' = "revive"
    /\ repeated' = FALSE
    /\ UNCHANGED <<sockets, storage, now, nextId, doneLog, posted, created, clientVars>>

\* ---- the receiver page: signalling (src/unnamed/part_006) ----

\* the loop of flushReceiverCandidates up to its next await: the items at the
\* head of the buffer whose sid is not `sid` are spliced out
RECURSIVE dropStale(_, _)
dropStale(pending, sid) ==
    IF pending = << >> \/ Head(pending) = sid
    THEN pending
    ELSE dropStale(Tail(pending), sid)

\* flushReceiverCandidates of the offer handler i, from the top of its loop
\* to its next await: the first item with the captured sid is spliced out and
\* handed to addIceCandidate (the handler awaits it), or the buffer runs out
\* and the handler goes on to createAnswer
flushReceiverCandidates(i, sid) ==
    LET rest == dropStale(rPending, sid) IN
    IF rest = << >>
    THEN /\ rPending' = << >>
         /\ rTasks' = [rTasks EXCEPT ![i].pc = "answer", ![i].flushSid = sid]
         /\ UNCHANGED rAdded
    ELSE /\ rPending' = Tail(rest)
         /\ rAdded' = rAdded \cup {[sid |-> Head(rest), at |-> rActiveSid]}
         /\ rTasks' = [rTasks EXCEPT ![i].pc = "flush", ![i].flushSid = sid]

\* ws.onmessage, offer, of a page whose role is answerer: createReceiverPc
\* (an existing connection and its peer id are kept), the sid becomes the
\* active one, and the handler awaits setRemoteDescription
RecvOffer(from, sid) ==
    /\ rMsgs < MaxRecvMsgs
    /\ rMsgs' = rMsgs + 1
    /\ IF rPc
       THEN UNCHANGED <<rPc, rPeerId, rRemoteDescSet, rPending>>
       ELSE /\ rPc' = TRUE
            /\ rPeerId' = from
            /\ rRemoteDescSet' = FALSE
            /\ rPending' = << >>
    /\ rActiveSid' = sid
    /\ rTasks' = Append(rTasks, [from |-> from, sid |-> sid, pc |-> "setRemote", flushSid |-> 0])
    /\ rEv' = "offer"
    /\ UNCHANGED <<rAdded, rAnswers>>
    /\ UNCHANGED <<roomVars, xferVars, sendVars>>

\* setRemoteDescription of the offer handler i resolves (the connection
\* settles them in the order of the calls): the flag is set and
\* flushReceiverCandidates starts, with the sid that is active now
OfferRemoteSet(i) ==
    /\ i \in 1..Len(rTasks)
    /\ rTasks[i].pc = "setRemote"
    /\ \A j \in 1..(i - 1) : rTasks[j].pc # "setRemote"
    /\ rRemoteDescSet' = TRUE
    /\ flushReceiverCandidates(i, rActiveSid)
    /\ rEv' = "remoteSet"
    /\ UNCHANGED <<rPc, rPeerId, rActiveSid, rAnswers, rMsgs>>
    /\ UNCHANGED <<roomVars, xferVars, sendVars>>

\* addIceCandidate of the flush of the offer handler i resolves: the loop
\* goes on with the sid it captured when it started
OfferFlushStep(i) ==
    /\ i \in 1..Len(rTasks)
    /\ rTasks[i].pc = "flush"
    /\ flushReceiverCandidates(i, rTasks[i].flushSid)
    /\ rEv' = "added"
    /\ UNCHANGED <<rPc, rPeerId, rActiveSid, rRemoteDescSet, rAnswers, rMsgs>>
    /\ UNCHANGED <<roomVars, xferVars, sendVars>>

\* addIceCandidate of the flush of the offer handler i rejects: nothing
\* catches the rejection, it ends flushReceiverCandidates and the offer
\* handler that awaits it
OfferFlushRejected(i) ==
    /\ i \in 1..Len(rTasks)
    /\ rTasks[i].pc = "flush"
    /\ rTasks' = [j \in 1..(Len(rTasks) - 1) |-> IF j < i THEN rTasks[j] ELSE rTasks[j + 1]]
    /\ rEv' = "addRejected"
    /\ UNCHANGED <<rPc, rPeerId, rActiveSid, rRemoteDescSet, rPending, rAdded, rAnswers, rMsgs>>
    /\ UNCHANGED <<roomVars, xferVars, sendVars>>

\* createAnswer and setLocalDescription of the offer handler i resolve: the
\* answer is sent to the sender of the offer with the sid of the offer
OfferAnswer(i) ==
    /\ i \in 1..Len(rTasks)
    /\ rTasks[i].pc = "answer"
    /\ rAnswers' = rAnswers \cup {[to |-> rTasks[i].from, sid |-> rTasks[i].sid]}
    /\ rTasks' = [j \in 1..(Len(rTasks) - 1) |-> IF j < i THEN rTasks[j] ELSE rTasks[j + 1]]
    /\ rEv' = "answer"
    /\ UNCHANGED <<rPc, rPeerId, rActiveSid, rRemoteDescSet, rPending, rAdded, rMsgs>>
    /\ UNCHANGED <<roomVars, xferVars, sendVars>>

\* ws.onmessage, candidate, of a page whose role is answerer: dropped when it
\* is not from the bound peer or there is no connection, buffered while the
\* remote description is not set, handed to addIceCandidate otherwise
RecvCandidate(from, sid) ==
    /\ rMsgs < MaxRecvMsgs
    /\ rMsgs' = rMsgs + 1
    /\ IF from # rPeerId \/ ~rPc
       THEN UNCHANGED <<rPending, rAdded>>
       ELSE IF ~rRemoteDescSet
            THEN /\ rPending' = Append(rPending, sid)
                 /\ UNCHANGED rAdded
            ELSE /\ rAdded' = rAdded \cup {[sid |-> sid, at |-> rActiveSid]}
                 /\ UNCHANGED rPending
    /\ rEv' = "candidate"
    /\ UNCHANGED <<rPc, rPeerId, rActiveSid, rRemoteDescSet, rTasks, rAnswers>>
    /\ UNCHANGED <<roomVars, xferVars, sendVars>>

\* ---- the data channel: framing and crypto (src/unnamed/part_006) ----

\* the 12 bytes of crypto.getRandomValues, all of them the drawn value v
IvBytes(v) == [i \in 1..IvLen |-> v]

\* AES-GCM as a keyed transformation: the ciphertext bytes depend on the
\* key and the IV, and the tag authenticates key, IV and ciphertext
RECURSIVE Sum(_)
Sum(s) == IF s = << >> THEN 0 ELSE Head(s) + Sum(Tail(s))

Cipher(plain, key, iv) ==
    [i \in 1..Len(plain) |-> (plain[i] + key + iv[1]) % ByteValues]

Decipher(ct, key, iv) ==
    [i \in 1..Len(ct) |-> (ct[i] + ByteValues * (MaxKey + 1) - key - iv[1]) % ByteValues]

AuthTag(key, iv, ct) == key + (MaxKey + 1) * (iv[1] + ByteValues * Sum(ct))

\* encryptChunk: the input itself when there is no key, else the IV, the
\* ciphertext and its tag
encryptChunk(plainAb, key, v) ==
    IF key = 0
    THEN plainAb
    ELSE LET iv == IvBytes(v)
             ct == Cipher(plainAb, key, iv)
         IN  iv \o ct \o [i \in 1..TagLen |-> AuthTag(key, iv, ct)]

\* decryptChunk: <<result>>, or << >> when crypto.subtle.decrypt rejects.
\* Without a key the frame itself is the result.
decryptChunk(frameAb, key) ==
    IF key = 0
    THEN <<frameAb>>
    ELSE IF Len(frameAb) < IvLen + TagLen
         THEN << >>
         ELSE LET iv == SubSeq(frameAb, 1, IvLen)
                  ct == SubSeq(frameAb, IvLen + 1, Len(frameAb) - TagLen)
                  tag == SubSeq(frameAb, Len(frameAb) - TagLen + 1, Len(frameAb))
              IN  IF \A i \in 1..TagLen : tag[i] = AuthTag(key, iv, ct)
                  THEN <<Decipher(ct, key, iv)>>
                  ELSE << >>

\* new Blob(chunks): the concatenation of the chunks
RECURSIVE Blob(_)
Blob(chunks) == IF chunks = << >> THEN << >> ELSE Head(chunks) \o Blob(Tail(chunks))

\* the messages of the data channel
DataMessage(type, name, size, encrypted, data) ==
    [type |-> type, name |-> name, size |-> size, encrypted |-> encrypted, data |-> data]

\* the files: every byte sequence of at most MaxFileLen bytes
Files == UNION {[1..n -> 0..(ByteValues - 1)] : n \in 0..MaxFileLen}

\* boot() of the sender page and of the receiver page: the key of the URL
\* fragment, or none
SenderBoot(key) ==
    /\ "sender" \notin booted
    /\ booted' = booted \cup {"sender"}
    /\ senderKey' = key
    /\ dEv' = "boot"
    /\ UNCHANGED <<receiverKey, sendFile, sendOffset, sending, dc, incomingMeta, recvChunks,
                   recvBytes, download, status, decrypting, sentFiles, failed>>
    /\ UNCHANGED <<roomVars, recvVars, sendVars>>

ReceiverBoot(key) ==
    /\ "receiver" \notin booted
    /\ booted' = booted \cup {"receiver"}
    /\ receiverKey' = key
    /\ dEv' = "boot"
    /\ UNCHANGED <<senderKey, sendFile, sendOffset, sending, dc, incomingMeta, recvChunks,
                   recvBytes, download, status, decrypting, sentFiles, failed>>
    /\ UNCHANGED <<roomVars, recvVars, sendVars>>

\* sendFileToPeer up to its first await: the meta frame
sendFileToPeer(file) ==
    /\ booted = {"sender", "receiver"}
    /\ ~sending
    /\ Len(sentFiles) < MaxTransfers
    /\ sentFiles' = Append(sentFiles, file)
    /\ sendFile' = file
    /\ sendOffset' = 0
    /\ sending' = TRUE
    /\ dc' = Append(dc, DataMessage("meta", Len(sentFiles) + 1, Len(file), senderKey # 0, << >>))
    /\ dEv' = "sendMeta"
    /\ UNCHANGED <<senderKey, receiverKey, booted, incomingMeta, recvChunks, recvBytes,
                   download, status, decrypting, failed>>
    /\ UNCHANGED <<roomVars, recvVars, sendVars>>

\* one round of the loop of sendFileToPeer: the next slice of at most
\* chunkSize bytes, encrypted under a fresh IV when there is a key
SendChunk(v) ==
    /\ sending
    /\ sendOffset < Len(sendFile)
    /\ LET value == SubSeq(sendFile, sendOffset + 1, Min2(sendOffset + chunkSize, Len(sendFile)))
           payload == IF senderKey # 0 THEN encryptChunk(value, senderKey, v) ELSE value
       IN  /\ dc' = Append(dc, DataMessage("bin", 0, 0, FALSE, payload))
           /\ sendOffset' = sendOffset + Len(value)
    /\ dEv' = "sendChunk"
    /\ UNCHANGED <<senderKey, receiverKey, booted, sendFile, sending, incomingMeta, recvChunks,
                   recvBytes, download, status, decrypting, sentFiles, failed>>
    /\ UNCHANGED <<roomVars, recvVars, sendVars>>

\* the end of sendFileToPeer: the done frame
SendDone ==
    /\ sending
    /\ sendOffset >= Len(sendFile)
    /\ dc' = Append(dc, DataMessage("done", 0, 0, FALSE, << >>))
    /\ sending' = FALSE
    /\ dEv' = "sendDone"
    /\ UNCHANGED <<senderKey, receiverKey, booted, sendFile, sendOffset, incomingMeta,
                   recvChunks, recvBytes, download, status, decrypting, sentFiles, failed>>
    /\ UNCHANGED <<roomVars, recvVars, sendVars>>

\* finalizeDownload: it has no await, it runs in the step that calls it
finalizeDownload ==
    IF incomingMeta = << >>
    THEN UNCHANGED <<download, status>>
    ELSE /\ download' = <<[name |-> incomingMeta[1].name, size |-> incomingMeta[1].size,
                           blob |-> Blob(recvChunks)]>>
         /\ status' = "receiveComplete"

\* ch.onmessage of the receiver for the next frame of the channel, with the
\* microtasks it leaves behind (toArrayBuffer of an ArrayBuffer, decryptChunk
\* without a key); a crypto.subtle.decrypt stays pending
ReceiveMessage ==
    /\ dc # << >>
    /\ dc' = Tail(dc)
    /\ LET m == Head(dc) IN
       CASE m.type = "meta" ->
              /\ incomingMeta' = <<m>>
              /\ recvChunks' = << >>
              /\ recvBytes' = 0
              /\ download' = << >>
              /\ status' = IF m.encrypted /\ receiverKey = 0 THEN "missingKey" ELSE "receiving"
              /\ failed' = FALSE
              /\ dEv' = "meta"
              /\ UNCHANGED decrypting
         [] m.type = "done" ->
              /\ finalizeDownload
              /\ dEv' = "done"
              /\ UNCHANGED <<incomingMeta, recvChunks, recvBytes, decrypting, failed>>
         [] OTHER ->
              /\ dEv' = "bin"
              /\ UNCHANGED <<incomingMeta, download, status, failed>>
              /\ IF incomingMeta = << >>
                 THEN UNCHANGED <<recvChunks, recvBytes, decrypting>>
                 ELSE IF incomingMeta[1].encrypted /\ receiverKey # 0
                      THEN /\ decrypting' = Append(decrypting, m.data)
                           /\ UNCHANGED <<recvChunks, recvBytes>>
                      ELSE LET plain == IF incomingMeta[1].encrypted
                                        THEN decryptChunk(m.data, receiverKey)[1]
                                        ELSE m.data
                           IN  /\ recvChunks' = Append(recvChunks, plain)
                               /\ recvBytes' = recvBytes + Len(plain)
                               /\ UNCHANGED decrypting
    /\ UNCHANGED <<senderKey, receiverKey, booted, sendFile, sendOffset, sending, sentFiles>>
    /\ UNCHANGED <<roomVars, recvVars, sendVars>>

\* the crypto.subtle.decrypt of a binary frame settles and its handler runs
\* to its end: the plaintext is appended to the buffer there is now, or the
\* rejection ends the handler.  Pending decryptions settle in any order.
DecryptSettled(i) ==
    /\ i \in 1..Len(decrypting)
    /\ decrypting' = [j \in 1..(Len(decrypting) - 1) |->
                         IF j < i THEN decrypting[j] ELSE decrypting[j + 1]]
    /\ LET plain == decryptChunk(decrypting[i], receiverKey) IN
       IF plain = << >>
       THEN /\ failed' = TRUE
            /\ dEv' = "decryptFailed"
            /\ UNCHANGED <<recvChunks, recvBytes>>
       ELSE /\ recvChunks' = Append(recvChunks, plain[1])
            /\ recvBytes' = recvBytes + Len(plain[1])
            /\ dEv' = "decrypted"
            /\ UNCHANGED failed
    /\ UNCHANGED <<senderKey, receiverKey, booted, sendFile, sendOffset, sending, dc,
                   incomingMeta, download, status, sentFiles>>
    /\ UNCHANGED <<roomVars, recvVars, sendVars>>

\* ---- the sender page: peer contexts and signalling (src/unnamed/part_006) ----

SendPeers == 1..MaxSendPeers

\* the handlers in flight without those of the context ctx: the pending
\* operations of a closed RTCPeerConnection do not settle
tasksWithout(T, ctx) == SelectSeq(T, LAMBDA k : k.ctx # ctx)

RemoveAt(q, i) == [j \in 1..(Len(q) - 1) |-> IF j < i THEN q[j] ELSE q[j + 1]]

\* the connection runs its operations one after the other: the pending call
\* of the handler i settles when no earlier call on its connection is pending
FirstOfCtx(T, i) == \A j \in 1..(i - 1) : T[j].ctx # T[i].ctx

\* createOffererPeer: the context of the peer id if there is one, else a new
\* one with its connection and its data channel
createOffererPeer(P, peerId, ctx) ==
    IF P[peerId] # << >>
    THEN P
    ELSE [P EXCEPT ![peerId] =
             <<[ctx |-> ctx, signalSid |-> 0, activeSid |-> 0, remoteDescSet |-> FALSE,
                pendingCandidates |-> << >>, offerInFlight |-> FALSE, sending |-> FALSE,
                sent |-> FALSE, dcOpen |-> FALSE, signalingState |-> "stable"]>>]

\* closeOffererPeer: the channel and the connection are closed and the
\* context leaves the map
closeOffererPeer(P, peerId) == [P EXCEPT ![peerId] = << >>]

\* the contexts closeOffererPeer closes
closedBy(P, peerId) == IF P[peerId] = << >> THEN {} ELSE {P[peerId][1].ctx}

\* sendOffer goes past its two guards
offerStarts(peer) == ~peer.offerInFlight /\ peer.signalingState = "stable"

\* sendOffer up to its first await: the sid of the context is incremented
\* and becomes the active one
sendOffer(peer) ==
    IF offerStarts(peer)
    THEN [peer EXCEPT !.offerInFlight = TRUE,
                      !.signalSid = peer.signalSid + 1,
                      !.activeSid = peer.signalSid + 1]
    ELSE peer

\* ws.onmessage, start: the context of the peer id is closed if there is
\* one, a new one is created and sendOffer awaits createOffer
Start(peerId) ==
    /\ wsOpen
    /\ ctxCount < MaxCtx
    /\ LET gone == closedBy(offererPeers, peerId)
           made == createOffererPeer(closeOffererPeer(offererPeers, peerId), peerId,
                                     ctxCount + 1)
           peer == made[peerId][1]
           rest == IF gone = {} THEN sTasks
                   ELSE tasksWithout(sTasks, CHOOSE c \in gone : TRUE)
       IN  /\ offererPeers' = [made EXCEPT ![peerId] = <<sendOffer(peer)>>]
           /\ closedCtx' = closedCtx \cup gone
           /\ sTasks' = IF offerStarts(peer)
                        THEN Append(rest, [kind |-> "offer", ctx |-> peer.ctx,
                                           peerId |-> peerId, sid |-> peer.signalSid + 1,
                                           of |-> peer.ctx, pc |-> "createOffer"])
                        ELSE rest
    /\ ctxCount' = ctxCount + 1
    /\ UNCHANGED <<offers, applied, queued, added, sMsgs, wsOpen, sendIntent, selectedFile,
                   selections, xfers, xferLog, chanLog, wsDone>>
    /\ UNCHANGED <<roomVars, recvVars, xferVars>>

\* ws.onmessage, peer-left: closeOffererPeer
PeerLeft(peerId) ==
    /\ wsOpen
    /\ offererPeers' = closeOffererPeer(offererPeers, peerId)
    /\ closedCtx' = closedCtx \cup closedBy(offererPeers, peerId)
    /\ sTasks' = IF offererPeers[peerId] = << >> THEN sTasks
                 ELSE tasksWithout(sTasks, offererPeers[peerId][1].ctx)
    /\ UNCHANGED <<ctxCount, offers, applied, queued, added, sMsgs, wsOpen, sendIntent,
                   selectedFile, selections, xfers, xferLog, chanLog, wsDone>>
    /\ UNCHANGED <<roomVars, recvVars, xferVars>>

\* createOffer of the sendOffer i resolves: it awaits setLocalDescription
OfferCreated(i) ==
    /\ i \in 1..Len(sTasks)
    /\ sTasks[i].pc = "createOffer"
    /\ FirstOfCtx(sTasks, i)
    /\ sTasks' = Append(RemoveAt(sTasks, i), [sTasks[i] EXCEPT !.pc = "setLocal"])
    /\ UNCHANGED <<offererPeers, ctxCount, closedCtx, offers, applied, queued, added, sMsgs,
                   wsOpen, sendIntent, selectedFile, selections, xfers, xferLog, chanLog,
                   wsDone>>
    /\ UNCHANGED <<roomVars, recvVars, xferVars>>

\* setLocalDescription of the sendOffer i resolves: the offer is sent with
\* the sid the call took (a closed socket discards the frame)
OfferLocalSet(i) ==
    /\ i \in 1..Len(sTasks)
    /\ sTasks[i].pc = "setLocal"
    /\ FirstOfCtx(sTasks, i)
    /\ LET k == sTasks[i] IN
       /\ offererPeers' = [offererPeers EXCEPT ![k.peerId] =
                              <<[@[1] EXCEPT !.offerInFlight = FALSE,
                                             !.signalingState = "have-local-offer"]>>]
       /\ offers' = IF wsOpen
                    THEN Append(offers, [to |-> k.peerId, sid |-> k.sid, ctx |-> k.ctx])
                    ELSE offers
    /\ sTasks' = RemoveAt(sTasks, i)
    /\ UNCHANGED <<ctxCount, closedCtx, applied, queued, added, sMsgs, wsOpen, sendIntent,
                   selectedFile, selections, xfers, xferLog, chanLog, wsDone>>
    /\ UNCHANGED <<roomVars, recvVars, xferVars>>

\* the items at the head of the buffer that flushOffererCandidates splices
\* out without adding them: those whose sid is not the active one
RECURSIVE dropStaleItems(_, _)
dropStaleItems(pending, sid) ==
    IF pending = << >> \/ Head(pending).sid = sid
    THEN pending
    ELSE dropStaleItems(Tail(pending), sid)

\* flushOffererCandidates of the answer handler i on its context, from the
\* top of its loop to its next await: the first item with the active sid is
\* spliced out and handed to addIceCandidate, or the buffer runs out and the
\* handler ends
flushOffererCandidates(i, peer) ==
    LET k == sTasks[i]
        rest == dropStaleItems(peer.pendingCandidates, peer.activeSid)
    IN  IF rest = << >>
        THEN /\ offererPeers' = [offererPeers EXCEPT ![k.peerId] =
                                    <<[peer EXCEPT !.pendingCandidates = << >>]>>]
             /\ sTasks' = RemoveAt(sTasks, i)
             /\ UNCHANGED added
        ELSE /\ offererPeers' = [offererPeers EXCEPT ![k.peerId] =
                                    <<[peer EXCEPT !.pendingCandidates = Tail(rest)]>>]
             /\ added' = Append(added, [ctx |-> k.ctx, cand |-> Head(rest).candidate,
                                        sid |-> Head(rest).sid, at |-> peer.activeSid,
                                        remoteDescSet |-> peer.remoteDescSet,
                                        buffered |-> TRUE])
             /\ sTasks' = Append(RemoveAt(sTasks, i), [k EXCEPT !.pc = "flush"])

\* ws.onmessage, answer: the answer a receiver made for the n-th offer.  It is
\* dropped when there is no context for its sender or its sid is not the
\* active one; else it is handed to setRemoteDescription
RecvAnswer(n) ==
    /\ wsOpen
    /\ n \in 1..Len(offers)
    /\ sMsgs < MaxSendMsgs
    /\ sMsgs' = sMsgs + 1
    /\ LET o == offers[n]
           P == offererPeers[o.to]
       IN
       IF P = << >> \/ P[1].activeSid = 0 \/ o.sid # P[1].activeSid
       THEN UNCHANGED <<sTasks, applied>>
       ELSE /\ sTasks' = Append(sTasks, [kind |-> "answer", ctx |-> P[1].ctx,
                                         peerId |-> o.to, sid |-> o.sid, of |-> o.ctx,
                                         pc |-> "setRemote"])
            /\ applied' = applied \cup {[ctx |-> P[1].ctx, sid |-> o.sid,
                                         at |-> P[1].activeSid, of |-> o.ctx]}
    /\ UNCHANGED <<offererPeers, ctxCount, closedCtx, offers, queued, added, wsOpen,
                   sendIntent, selectedFile, selections, xfers, xferLog, chanLog, wsDone>>
    /\ UNCHANGED <<roomVars, recvVars, xferVars>>

\* setRemoteDescription of the answer handler i settles.  The connection
\* takes an answer in the state have-local-offer: the flag is set and the
\* buffer is drained.  In any other state it rejects and the handler ends.
AnswerRemoteSet(i) ==
    /\ i \in 1..Len(sTasks)
    /\ sTasks[i].pc = "setRemote"
    /\ FirstOfCtx(sTasks, i)
    /\ LET k == sTasks[i]
           peer == offererPeers[k.peerId][1]
       IN  IF peer.signalingState = "have-local-offer"
           THEN flushOffererCandidates(i, [peer EXCEPT !.signalingState = "stable",
                                                       !.remoteDescSet = TRUE])
           ELSE /\ sTasks' = RemoveAt(sTasks, i)
                /\ UNCHANGED <<offererPeers, added>>
    /\ UNCHANGED <<ctxCount, closedCtx, offers, applied, queued, sMsgs, wsOpen, sendIntent,
                   selectedFile, selections, xfers, xferLog, chanLog, wsDone>>
    /\ UNCHANGED <<roomVars, recvVars, xferVars>>

\* addIceCandidate of the flush of the answer handler i resolves: the loop
\* goes on
AnswerFlushStep(i) ==
    /\ i \in 1..Len(sTasks)
    /\ sTasks[i].pc = "flush"
    /\ FirstOfCtx(sTasks, i)
    /\ flushOffererCandidates(i, offererPeers[sTasks[i].peerId][1])
    /\ UNCHANGED <<ctxCount, closedCtx, offers, applied, queued, sMsgs, wsOpen, sendIntent,
                   selectedFile, selections, xfers, xferLog, chanLog, wsDone>>
    /\ UNCHANGED <<roomVars, recvVars, xferVars>>

\* addIceCandidate of the flush of the answer handler i rejects: nothing
\* catches the rejection, it ends the flush and the answer handler
AnswerFlushRejected(i) ==
    /\ i \in 1..Len(sTasks)
    /\ sTasks[i].pc = "flush"
    /\ FirstOfCtx(sTasks, i)
    /\ sTasks' = RemoveAt(sTasks, i)
    /\ UNCHANGED <<offererPeers, ctxCount, closedCtx, offers, applied, queued, added, sMsgs,
                   wsOpen, sendIntent, selectedFile, selections, xfers, xferLog, chanLog,
                   wsDone>>
    /\ UNCHANGED <<roomVars, recvVars, xferVars>>

\* ws.onmessage, candidate, of the sender: dropped when there is no context
\* for its sender or its sid is not the active one, buffered while the
\* remote description is not set, handed to addIceCandidate otherwise.  The
\* candidate is named by the number of its frame.
SenderCandidate(from, sid) ==
    /\ wsOpen
    /\ sMsgs < MaxSendMsgs
    /\ sMsgs' = sMsgs + 1
    /\ LET P == offererPeers[from] IN
       IF P = << >> \/ P[1].activeSid = 0 \/ sid # P[1].activeSid
       THEN UNCHANGED <<offererPeers, queued, added>>
       ELSE IF ~P[1].remoteDescSet
            THEN /\ offererPeers' = [offererPeers EXCEPT ![from] =
                        <<[P[1] EXCEPT !.pendingCandidates =
                              Append(@, [sid |-> sid, candidate |-> sMsgs + 1])]>>]
                 /\ queued' = Append(queued, [ctx |-> P[1].ctx, cand |-> sMsgs + 1])
                 /\ UNCHANGED added
            ELSE /\ added' = Append(added, [ctx |-> P[1].ctx, cand |-> sMsgs + 1,
                                            sid |-> sid, at |-> P[1].activeSid,
                                            remoteDescSet |-> P[1].remoteDescSet,
                                            buffered |-> FALSE])
                 /\ UNCHANGED <<offererPeers, queued>>
    /\ UNCHANGED <<ctxCount, closedCtx, sTasks, offers, applied, wsOpen, sendIntent,
                   selectedFile, selections, xfers, xferLog, chanLog, wsDone>>
    /\ UNCHANGED <<roomVars, recvVars, xferVars>>

\* ws.onclose: the status line changes, the peer contexts are left alone
WsClose ==
    /\ wsOpen
    /\ wsOpen' = FALSE
    /\ UNCHANGED <<offererPeers, ctxCount, closedCtx, sTasks, offers, applied, queued, added,
                   sMsgs, sendIntent, selectedFile, selections, xfers, xferLog, chanLog,
                   wsDone>>
    /\ UNCHANGED <<roomVars, recvVars, xferVars>>

\* ---- the sender page: transmissions (src/unnamed/part_006) ----

\* resetPeerSends: the progress flags of every context are cleared
resetPeerSends(P) ==
    [p \in SendPeers |->
        IF P[p] = << >> THEN << >>
        ELSE <<[P[p][1] EXCEPT !.sent = FALSE, !.sending = FALSE]>>]

\* the offset of the loop of sendFileToPeer after a slice of byteLength bytes
stay(offset, byteLength) == offset

advance(offset, byteLength) == offset + byteLength

\* the end of sendFileToPeer for the transmission x of the context at
\* peerId: the done frame, the sent flag, transfer-done on the signalling
\* socket (a closed socket discards it), and trySendPeer clears its flag
sendFileEnd(S, peerId, x) ==
    [S EXCEPT !.chan = Append(@, [ctx |-> S.peers[peerId][1].ctx, x |-> x,
                                  type |-> "done", offset |-> 0]),
              !.peers[peerId] = <<[@[1] EXCEPT !.sent = TRUE, !.sending = FALSE]>>,
              !.done = IF wsOpen THEN Append(@, [peerId |-> peerId, x |-> x]) ELSE @]

\* trySendPeer with sendFileToPeer up to its first await: nothing without
\* the intent to send, on a context that is sending or has sent, without a
\* file or an open channel; else the meta frame.  The loop of an empty
\* file has no await: its transmission ends in the same step.
trySendPeer(S, peerId, intent) ==
    LET P == S.peers[peerId] IN
    IF \/ ~intent
       \/ P = << >>
       \/ P[1].sending \/ P[1].sent
       \/ selectedFile = 0
       \/ ~P[1].dcOpen
    THEN S
    ELSE LET x == Len(S.log) + 1
             size == selections[selectedFile]
             meta == [S EXCEPT !.peers[peerId] = <<[@[1] EXCEPT !.sending = TRUE]>>,
                               !.log = Append(@, [ctx |-> P[1].ctx, sel |-> selectedFile,
                                                  peerId |-> peerId]),
                               !.chan = Append(@, [ctx |-> P[1].ctx, x |-> x,
                                                   type |-> "meta", offset |-> 0])]
         IN  IF size = 0
             THEN sendFileEnd(meta, peerId, x)
             ELSE [meta EXCEPT !.xfers = Append(@, [x |-> x, ctx |-> P[1].ctx,
                                                    peerId |-> peerId, size |-> size,
                                                    offset |-> 0])]

\* trySendAll: trySendPeer for the contexts of the map, one after the other
RECURSIVE trySendAll(_, _)
trySendAll(S, n) ==
    IF n = 0 THEN S ELSE trySendPeer(trySendAll(S, n - 1), n, TRUE)

\* what the transmissions read and write
SendState ==
    [peers |-> offererPeers, xfers |-> xfers, log |-> xferLog, chan |-> chanLog,
     done |-> wsDone]

Becomes(S) ==
    /\ offererPeers' = S.peers
    /\ xfers' = S.xfers
    /\ xferLog' = S.log
    /\ chanLog' = S.chan
    /\ wsDone' = S.done

\* handleFileInput and handleDrop: a file of `size` bytes is selected, the
\* intent to send and the flags of the contexts are cleared
SelectFile(size) ==
    /\ Len(selections) < MaxSelections
    /\ sendIntent' = FALSE
    /\ offererPeers' = resetPeerSends(offererPeers)
    /\ selections' = Append(selections, size)
    /\ selectedFile' = Len(selections) + 1
    /\ UNCHANGED <<ctxCount, closedCtx, sTasks, offers, applied, queued, added, sMsgs,
                   wsOpen, xfers, xferLog, chanLog, wsDone>>
    /\ UNCHANGED <<roomVars, recvVars, xferVars>>

\* handleSend: the click on the send button, enabled once a file is selected
HandleSend ==
    /\ selectedFile # 0
    /\ sendIntent' = TRUE
    /\ Becomes(trySendAll(SendState, MaxSendPeers))
    /\ UNCHANGED <<ctxCount, closedCtx, sTasks, offers, applied, queued, added, sMsgs,
                   wsOpen, selectedFile, selections>>
    /\ UNCHANGED <<roomVars, recvVars, xferVars>>

\* ch.onopen of the data channel of the context at peerId, whose connection
\* is established: trySendPeer
DcOpen(peerId) ==
    /\ offererPeers[peerId] # << >>
    /\ offererPeers[peerId][1].remoteDescSet
    /\ ~offererPeers[peerId][1].dcOpen
    /\ Becomes(trySendPeer([SendState EXCEPT !.peers[peerId] =
                                <<[@[1] EXCEPT !.dcOpen = TRUE]>>], peerId, sendIntent))
    /\ UNCHANGED <<ctxCount, closedCtx, sTasks, offers, applied, queued, added, sMsgs,
                   wsOpen, sendIntent, selectedFile, selections>>
    /\ UNCHANGED <<roomVars, recvVars, xferVars>>

\* one round of the loop of the transmission i: the slice at its offset is
\* sent.  dc.send throws on the channel of a closed context and ends the
\* transmission.
SendStep(i) ==
    /\ i \in 1..Len(xfers)
    /\ xfers[i].offset < xfers[i].size
    /\ LET t == xfers[i]
           byteLength == Min2(chunkSize, t.size - t.offset)
       IN  IF t.ctx \in closedCtx
           THEN /\ xfers' = RemoveAt(xfers, i)
                /\ UNCHANGED chanLog
           ELSE /\ chanLog' = Append(chanLog, [ctx |-> t.ctx, x |-> t.x, type |-> "bin",
                                               offset |-> t.offset])
                /\ xfers' = [xfers EXCEPT ![i].offset = advance(t.offset, byteLength)]
    /\ UNCHANGED <<offererPeers, ctxCount, closedCtx, sTasks, offers, applied, queued, added,
                   sMsgs, wsOpen, sendIntent, selectedFile, selections, xferLog, wsDone>>
    /\ UNCHANGED <<roomVars, recvVars, xferVars>>

\* the loop of the transmission i is over: the end of sendFileToPeer
SendEnd(i) ==
    /\ i \in 1..Len(xfers)
    /\ xfers[i].offset >= xfers[i].size
    /\ LET t == xfers[i] IN
       IF t.ctx \in closedCtx
       THEN /\ xfers' = RemoveAt(xfers, i)
            /\ UNCHANGED <<offererPeers, xferLog, chanLog, wsDone>>
       ELSE Becomes(sendFileEnd([SendState EXCEPT !.xfers = RemoveAt(xfers, i)],
                                t.peerId, t.x))
    /\ UNCHANGED <<ctxCount, closedCtx, sTasks, offers, applied, queued, added, sMsgs,
                   wsOpen, sendIntent, selectedFile, selections>>
    /\ UNCHANGED <<roomVars, recvVars, xferVars>>

Init ==
    /\ sockets = << >>
    /\ activePairs = [c \in Cids |-> NoCid]
    /\ config = << >>
    /\ storage = << >>
    /\ now = 0
    /\ nextId = 1
    /\ sent = << >>
    /\ ev = "init"
    /\ doneLog = {}
    /\ repeated = FALSE
    /\ posted = << >>
    /\ created = 0
    /\ rPc = FALSE
    /\ rPeerId = NoCid
    /\ rActiveSid = 0
    /\ rRemoteDescSet = FALSE
    /\ rPending = << >>
    /\ rTasks = << >>
    /\ rAdded = {}
    /\ rAnswers = {}
    /\ rMsgs = 0
    /\ rEv = "init"
    /\ senderKey = 0
    /\ receiverKey = 0
    /\ booted = {}
    /\ sendFile = << >>
    /\ sendOffset = 0
    /\ sending = FALSE
    /\ dc = << >>
    /\ incomingMeta = << >>
    /\ recvChunks = << >>
    /\ recvBytes = 0
    /\ download = << >>
    /\ status = "initializing"
    /\ decrypting = << >>
    /\ sentFiles = << >>
    /\ failed = FALSE
    /\ dEv = "init"
    /\ offererPeers = [p \in SendPeers |-> << >>]
    /\ ctxCount = 0
    /\ closedCtx = {}
    /\ sTasks = << >>
    /\ offers = << >>
    /\ applied = {}
    /\ queued = << >>
    /\ added = << >>
    /\ sMsgs = 0
    /\ wsOpen = TRUE
    /\ sendIntent = FALSE
    /\ selectedFile = 0
    /\ selections = << >>
    /\ xfers = << >>
    /\ xferLog = << >>
    /\ chanLog = << >>
    /\ wsDone = << >>

Ids == 1..MaxJoins

RelayTypes == {"offer", "answer", "candidate"}

\* the `to` of a relayed frame: a cid, or absent
RelayTargets == Cids \cup {NoCid}

\* The handlers that change the room: configuration, admission, transfer-done
\* and the two kinds of close.  Date.now() advances between admissions.
Next ==
    \/ \E m \in 1..MaxMC, c \in CreatorCids : PostConfig(m, c)
    \/ \E c \in JoinCids : Fetch(c, now + 1)
    \/ \E ws \in Ids, peerId \in Cids : TransferDone(ws, peerId)
    \/ \E ws \in Ids : ClientClose(ws)
    \/ \E ws \in Ids : ReplacedClose(ws)

Spec == Init /\ [][Next]_vars

\* All handlers: the above plus the signalling relay, invalid frames and
\* webSocketError, which leave sockets, activePairs and config as they are.
NextSignal ==
    \/ \E m \in 1..MaxMC, c \in CreatorCids : PostConfig(m, c)
    \/ \E c \in JoinCids : nextId <= MaxSignalJoins /\ Fetch(c, now + 1)
    \/ \E ws \in Ids, peerId \in Cids : TransferDone(ws, peerId)
    \/ \E ws \in Ids : ClientClose(ws)
    \/ \E ws \in Ids : ReplacedClose(ws)
    \/ \E ws \in Ids, type \in RelayTypes, to \in RelayTargets, sid \in Sids :
          Relay(ws, type, to, sid)
    \/ \E ws \in Ids : InvalidFrame(ws)
    \/ WebSocketError

SpecSignal == Init /\ [][NextSignal]_vars

\* the maxConcurrent values of a POST /api/rooms body: absent or not a
\* finite number, and the multiples of 1/2 around the range 1..10
JsonValues ==
    {<< >>} \cup {<<h>> : h \in (0 - MaxHalf)..(2 * MAX_MAX_CONCURRENT + MaxHalf)}

\* Configuration: POST /api/rooms with any maxConcurrent, at any time (the
\* room id is drawn at random and nothing keeps it from being the id of a
\* room in use), admissions, transfer-done, closes, and the re-instantiation
\* of the Room.
NextConfig ==
    \/ \E v \in JsonValues, c \in CreatorCids : ApiRooms(v, c)
    \/ ApiRoomsElsewhere
    \/ \E c \in JoinCids : nextId <= MaxConfigJoins /\ Fetch(c, now + 1)
    \/ \E ws \in Ids, peerId \in Cids : TransferDone(ws, peerId)
    \/ \E ws \in Ids : ClientClose(ws)
    \/ \E ws \in Ids : ReplacedClose(ws)
    \/ Revive

SpecConfig == Init /\ [][NextConfig]_vars

\* the senders and the sids of the frames the receiver page is sent
RecvPeers == 1..MaxRecvPeers

RecvSids == 1..MaxRecvSid

\* The receiver page under any sequence of offer and candidate frames; the
\* awaits of its handlers settle in between.
NextReceiver ==
    \/ \E from \in RecvPeers, sid \in RecvSids : RecvOffer(from, sid)
    \/ \E from \in RecvPeers, sid \in RecvSids : RecvCandidate(from, sid)
    \/ \E i \in 1..MaxRecvMsgs : OfferRemoteSet(i)
    \/ \E i \in 1..MaxRecvMsgs : OfferFlushStep(i)
    \/ \E i \in 1..MaxRecvMsgs : OfferFlushRejected(i)
    \/ \E i \in 1..MaxRecvMsgs : OfferAnswer(i)

SpecReceiver == Init /\ [][NextReceiver]_vars

\* One sender and one receiver on an open data channel: the pages boot with
\* any keys, the sender transmits files, the receiver handles the frames in
\* order and its decryptions settle in between.
NextTransfer ==
    \/ \E key \in 0..MaxKey : SenderBoot(key)
    \/ \E key \in 0..MaxKey : ReceiverBoot(key)
    \/ \E file \in Files : sendFileToPeer(file)
    \/ \E v \in 0..(ByteValues - 1) : SendChunk(v)
    \/ SendDone
    \/ ReceiveMessage
    \/ \E i \in 1..(MaxFileLen + 1) : DecryptSettled(i)

SpecTransfer == Init /\ [][NextTransfer]_vars

\* the cids of the joins whose order of cid matters: non-empty ones
TieCids == 1..MaxTieJoins

\* Admissions within one millisecond: Date.now() of a join is that of the
\* join before it, or later.  The joins use any non-empty cid, in any order.
NextTies ==
    \/ \E m \in 1..MaxMC, c \in CreatorCids : PostConfig(m, c)
    \/ \E c \in TieCids, t \in {now, now + 1} : nextId <= MaxTieJoins /\ Fetch(c, t)
    \/ \E ws \in Ids, peerId \in Cids : TransferDone(ws, peerId)
    \/ \E ws \in Ids : ClientClose(ws)
    \/ \E ws \in Ids : ReplacedClose(ws)

SpecTies == Init /\ [][NextTies]_vars

ActiveReceiver(s) == IsOpen(s) /\ IsAnswerer(s) /\ IsActive(s)

OffererIds(S) == {S[i].id : i \in {j \in 1..Len(S) : IsOpen(S[j]) /\ IsOfferer(S[j])}}

\* the sender reports a receiver that is active
Report ==
    \E ws \in OffererIds(sockets), p \in Cids :
        /\ socketByCid(sockets, p) # << >>
        /\ ActiveReceiver(socketByCid(sockets, p)[1])
        /\ TransferDone(ws, p)

NextLive ==
    \/ \E m \in 1..MaxMC, c \in CreatorCids : PostConfig(m, c)
    \/ \E c \in JoinCids : nextId <= MaxLiveJoins /\ Fetch(c, now + 1)
    \/ \E ws \in Ids, peerId \in Cids : TransferDone(ws, peerId)
    \/ \E ws \in Ids : ClientClose(ws)
    \/ \E ws \in Ids : ReplacedClose(ws)

\* The room under fairness: the runtime delivers the close event of every
\* socket the Room has closed, and the sender goes on reporting the
\* receivers that are active.
SpecLive ==
    /\ Init
    /\ [][NextLive]_vars
    /\ WF_vars(\E ws \in Ids : ReplacedClose(ws))
    /\ WF_vars(Report)

\* the sids of the candidate frames the sender page is sent
SendSids == 1..MaxSendSid

\* the handlers a run has in flight at most: one sendOffer for each context
\* and one handler for each answer frame; and the transmissions: one for
\* each selection on each context
MaxSendTasks == MaxCtx + MaxSendMsgs

MaxXfers == MaxCtx * MaxSelections

\* the sizes of the files selected: empty, one full slice, and the largest,
\* whose last slice is partial
SendSizes == {0, chunkSize, MaxFileLen}

\* The signalling of the sender page under any sequence of start, peer-left,
\* answer and candidate frames; the awaits of its handlers settle in
\* between.  An answer is the answer to an offer the page has sent.
NextSender ==
    \/ \E p \in SendPeers : Start(p)
    \/ \E p \in SendPeers : PeerLeft(p)
    \/ \E i \in 1..MaxSendTasks : OfferCreated(i)
    \/ \E i \in 1..MaxSendTasks : OfferLocalSet(i)
    \/ \E n \in 1..MaxCtx : RecvAnswer(n)
    \/ \E i \in 1..MaxSendTasks : AnswerRemoteSet(i)
    \/ \E i \in 1..MaxSendTasks : AnswerFlushStep(i)
    \/ \E i \in 1..MaxSendTasks : AnswerFlushRejected(i)
    \/ \E p \in SendPeers, sid \in SendSids : SenderCandidate(p, sid)
    \/ WsClose

SpecSender == Init /\ [][NextSender]_vars

\* The transmissions of the sender page: peer contexts come and go, their
\* connections are established, files are selected and the send button is
\* clicked at any time; the loops of the transmissions go on in between.
NextSend ==
    \/ \E p \in SendPeers : Start(p)
    \/ \E p \in SendPeers : PeerLeft(p)
    \/ \E i \in 1..MaxSendTasks : OfferCreated(i)
    \/ \E i \in 1..MaxSendTasks : OfferLocalSet(i)
    \/ \E n \in 1..MaxCtx : RecvAnswer(n)
    \/ \E i \in 1..MaxSendTasks : AnswerRemoteSet(i)
    \/ WsClose
    \/ \E size \in SendSizes : SelectFile(size)
    \/ HandleSend
    \/ \E p \in SendPeers : DcOpen(p)
    \/ \E i \in 1..MaxXfers : SendStep(i)
    \/ \E i \in 1..MaxXfers : SendEnd(i)

SpecSend == Init /\ [][NextSend]_vars

\* ---- properties ----
OpenIdx == {i \in 1..Len(sockets) : IsOpen(sockets[i])}

Has(S, id) == id \in SocketIds(S)

InSeq(q, x) == \E k \in 1..Len(q) : q[k] = x

WaitingReceiver(s) == IsOpen(s) /\ IsAnswerer(s) /\ s.state = "waiting"

NumActive(S) == Cardinality({i \in 1..Len(S) : ActiveReceiver(S[i])})

C2_ActivePairRecorded ==
    \A i \in OpenIdx :
        ActiveReceiver(sockets[i]) =>
            /\ activePairs[sockets[i].cid] # NoCid
            /\ getOffererSocket(sockets) # << >>
            /\ activePairs[sockets[i].cid] = getOffererSocket(sockets)[1].cid

\* C3: across joins (with or without creatorCid, with reused cids) and
\* departures, at most one open socket has role offerer.
C3_OneOfferer == Cardinality(OffererIds(sockets)) <= 1

\* the sender has joined again with its cid while its replaced socket is
\* still attached
C3_Witness ==
    /\ ev = "fetch"
    /\ OffererIds(sockets) # {}
    /\ \E i \in 1..Len(sockets) : ~IsOpen(sockets[i]) /\ IsOfferer(sockets[i])

UniqueOpenCid(S) ==
    \A i, j \in 1..Len(S) :
        (i # j /\ IsOpen(S[i]) /\ IsOpen(S[j])) => S[i].cid # S[j].cid

\* C4: after every handler at most one open socket per cid exists; an
\* upgrade closes every open socket of its cid ("replaced"), the new socket
\* is the open one, and its role is picked with the prior socket closed: when
\* no creator is configured and the prior socket was the offerer, the new
\* socket is the offerer.
C4_OneOpenSocketPerCid ==
    [][/\ UniqueOpenCid(sockets')
       /\ ev' = "fetch" =>
            LET new == sockets'[Len(sockets')]
            IN  /\ IsOpen(new)
                /\ \A i \in 1..Len(sockets) :
                       sockets[i].cid = new.cid => sockets'[i].ready = "closing"
                /\ (/\ ~Truthy(CreatorOf(config'))
                    /\ \E i \in OpenIdx : sockets[i].cid = new.cid /\ IsOfferer(sockets[i]))
                   => IsOfferer(new)
      ]_vars

\* an upgrade has replaced a socket of its cid
C4_Witness ==
    /\ ev = "fetch"
    /\ \E i \in 1..Len(sockets) :
           /\ i # Len(sockets)
           /\ ~IsOpen(sockets[i])
           /\ sockets[i].cid = sockets[Len(sockets)].cid
           /\ IsOpen(sockets[Len(sockets)])

\* C5: whenever an offer{to, sid} received from socket ws is relayed, exactly
\* one frame is sent, it is offer{from = cid of ws, sid}, and it goes to an
\* open socket whose cid is `to` and whose activePairs entry is the cid of ws.
C5_RelayedOffer ==
    [][ev' = "relay" =>
        \A ws \in SocketIds(sockets), to \in Cids, sid \in Sids :
            (sent' # << >> /\ Relay(ws, "offer", to, sid)) =>
                LET origin == SocketOf(sockets, ws)
                IN  /\ Len(sent') = 1
                    /\ sent'[1].frame = [type |-> "offer", from |-> origin.cid, sid |-> sid]
                    /\ Has(sockets, sent'[1].to)
                    /\ LET receiver == SocketOf(sockets, sent'[1].to)
                       IN  /\ IsOpen(receiver)
                           /\ receiver.cid = to
                           /\ activePairs[receiver.cid] = origin.cid
      ]_vars

\* an offer has been relayed in a room of three open sockets
C5_Witness ==
    /\ ev = "relay"
    /\ Len(sent) = 1
    /\ sent[1].frame.type = "offer"
    /\ Cardinality(OpenIdx) >= 3

\* s is active after the step and was not before it
PromotedNow(s) ==
    ActiveReceiver(s) /\ ~(Has(sockets, s.id) /\ IsActive(SocketOf(sockets, s.id)))

\* C6: FIFO promotion: whenever receivers are promoted, no open receiver
\* left waiting has a joinedAt smaller than that of a promoted one.
C6_FifoPromotion ==
    [][\A i, j \in 1..Len(sockets') :
           (PromotedNow(sockets'[i]) /\ WaitingReceiver(sockets'[j]))
               => sockets'[j].joinedAt >= sockets'[i].joinedAt
      ]_vars

\* a transfer-done or a departure has promoted one of two waiting receivers
C6_Witness ==
    /\ ev \in {"transfer-done", "close"}
    /\ \E i, j \in OpenIdx :
           /\ ActiveReceiver(sockets[i])
           /\ InSeq(sent, Frame(sockets[i].id, [type |-> "start"]))
           /\ WaitingReceiver(sockets[j])
           /\ sockets[j].joinedAt > sockets[i].joinedAt

\* C7: a receiver named by an accepted transfer-done is never active again
\* while its socket is attached, whatever joins, departures and reconnects
\* follow.
C7_DoneIsFinal ==
    \A i \in 1..Len(sockets) :
        sockets[i].id \in doneLog => ~ActiveReceiver(sockets[i])

C9_SenderReloadResets ==
    [][ev' = "close" =>
        \A id \in SocketIds(sockets) \ SocketIds(sockets') :
            IsOfferer(SocketOf(sockets, id)) =>
                \A i \in OpenIdx :
                    ActiveReceiver(sockets[i]) =>
                        /\ SocketOf(sockets', sockets[i].id).state = "waiting"
                        /\ InSeq(sent', Frame(sockets[i].id, [type |-> "wait"]))
      ]_vars

C11_RoleAssignment ==
    [][ev' = "fetch" =>
        LET new == sockets'[Len(sockets')]
            creatorCid == CreatorOf(config')
        IN  IF Truthy(creatorCid)
            THEN /\ IsOfferer(new) <=> new.cid = creatorCid
                 /\ \A i \in 1..Len(sockets') :
                        IsOfferer(sockets'[i]) => sockets'[i].cid = creatorCid
            ELSE IsOfferer(new) <=>
                     ~\E i \in 1..Len(sockets) :
                          IsOpen(sockets'[i]) /\ IsOfferer(sockets'[i])
      ]_vars

\* the creator has joined after a receiver and is the offerer
C11_Witness ==
    /\ ev = "fetch"
    /\ Truthy(CreatorOf(config))
    /\ IsOfferer(sockets[Len(sockets)])
    /\ \E i \in OpenIdx : IsAnswerer(sockets[i]) /\ sockets[i].joinedAt < sockets[Len(sockets)].joinedAt

\* C12: admission frame order: the frames of an admission are role{role, cid}
\* to the new socket, then wait to it if it is a receiver, then peers{count}
\* to every open socket, and only then the start frames of the promotions
\* the admission causes.
C12_AdmissionFrameOrder ==
    ev = "fetch" =>
        LET new == sockets[Len(sockets)]
            n == IF IsAnswerer(new) THEN 2 ELSE 1
            k == Cardinality(OpenIdx)
        IN  /\ Len(sent) >= n + k
            /\ sent[1] = Frame(new.id, [type |-> "role", role |-> new.role, cid |-> new.cid])
            /\ IsAnswerer(new) => sent[2] = Frame(new.id, [type |-> "wait"])
            /\ \A i \in 1..k : sent[n + i].frame = [type |-> "peers", count |-> k]
            /\ {sent[n + i].to : i \in 1..k} = {sockets[i].id : i \in OpenIdx}
            /\ \A j \in (n + k + 1)..Len(sent) : sent[j].frame.type = "start"

\* a receiver has been admitted and promoted by its own admission
C12_Witness ==
    /\ ev = "fetch"
    /\ IsAnswerer(sockets[Len(sockets)])
    /\ InSeq(sent, Frame(sockets[Len(sockets)].id, [type |-> "start"]))
    /\ Cardinality(OpenIdx) >= 3

\* the role-and-pair rule in the words of the claim
PairRule(origin, type, to) ==
    IF type = "offer" \/ (type = "candidate" /\ IsOfferer(origin))
    THEN IsOfferer(origin) /\ to \in Cids /\ activePairs[to] = origin.cid
    ELSE IsAnswerer(origin) /\ to \in Cids /\ activePairs[origin.cid] = to

NoEffect == sockets' = sockets /\ activePairs' = activePairs /\ sent' = << >>

\* C13: an invalid signalling frame is dropped without effect: a frame that
\* is not JSON or of an unknown type, an offer / answer / candidate that
\* fails the role-and-pair rule, and a transfer-done from a socket that is
\* not the offerer change no attachment and no activePairs entry and send no
\* frame: a step of the relay or of transfer-done that has an effect comes
\* only from a frame that passes the rule, or from the offerer.
C13_InvalidFrameDropped ==
    [][/\ ev' = "invalid" => NoEffect
       /\ ev' = "relay" =>
            \/ NoEffect
            \/ \A ws \in SocketIds(sockets), type \in RelayTypes,
                  to \in RelayTargets, sid \in Sids :
                   Relay(ws, type, to, sid) => PairRule(SocketOf(sockets, ws), type, to)
       /\ ev' = "transfer-done" =>
            \/ NoEffect
            \/ \A ws \in SocketIds(sockets), p \in Cids :
                   TransferDone(ws, p) => IsOfferer(SocketOf(sockets, ws))
      ]_vars

\* an unparsable frame has been handled in a room with an active pair
C13_Witness ==
    /\ ev = "invalid"
    /\ sent = << >>
    /\ \E i \in OpenIdx : ActiveReceiver(sockets[i]) /\ activePairs[sockets[i].cid] # NoCid

\* clamp(1, floor(v), 10), and 3 for a value that is absent or not a finite
\* number
Clamped(v) ==
    IF v = << >> THEN 3
    ELSE LET f == v[1] \div 2
         IN  IF f < 1 THEN 1 ELSE IF f > 10 THEN 10 ELSE f

\* C18: for every maxConcurrent value given to POST /api/rooms, the value
\* recorded in storage, the value the Room instance holds in config and the
\* value ensureConfig rehydrates from storage are clamp(1, floor(value), 10),
\* an integer in 1..10, and 3 when the value is absent or not a finite number.
C18_Normalised ==
    posted # << >> =>
        /\ storage # << >>
        /\ storage[1].maxConcurrent = Clamped(posted[1])
        /\ storage[1].maxConcurrent \in 1..10
        /\ config # << >> => config[1].maxConcurrent = Clamped(posted[1])
        /\ ensureConfig(config, storage)[1].maxConcurrent = Clamped(posted[1])

\* a fractional value above 10 has been posted and an admission has run with
\* the ceiling 10
C18_Witness ==
    /\ ev = "fetch"
    /\ posted # << >>
    /\ posted[1] # << >>
    /\ posted[1][1] > 20
    /\ posted[1][1] % 2 = 1
    /\ config # << >>
    /\ config[1].maxConcurrent = 10

\* C20: once a config is recorded, no later request changes the recorded
\* config or the maxConcurrent and creatorCid the Room instance holds.
C20_ConfigImmutable ==
    [][storage # << >> =>
           /\ storage' = storage
           /\ (config # << >> /\ config' # << >>) => config' = config
      ]_vars

\* C19: admission rate limit: the POST /api/rooms calls of one source address
\* that create a room within the window never exceed the ceiling.
C19_RateLimited == created <= RateCeiling

\* C14: every candidate handed to the receiver's connection, on arrival or
\* at a drain of the buffer, carries the sid the receiver is bound to at
\* that moment: a candidate with another sid is never added.
C14_StaleSidFence == \A a \in rAdded : a.sid = a.at

\* the receiver holds a meta that announces an encrypted transfer and has
\* no key
MissingKey ==
    /\ incomingMeta # << >>
    /\ incomingMeta[1].encrypted
    /\ receiverKey = 0

\* C15: while the receiver holds an encrypted meta and no key, the transfer
\* is marked failed, no binary frame is appended to the reassembly buffer
\* and no download is exposed.
C15_MissingKeyIsTerminal ==
    MissingKey => status = "missingKey" /\ recvChunks = << >> /\ download = << >>

\* C16: when a decryptChunk of the transfer has failed, the handling of the
\* following done exposes no download and reports no completed reception.
C16_DecryptFailureAborts ==
    [][(failed /\ dEv' = "done") => (download' = << >> /\ status' # "receiveComplete")]_vars

\* C17: when done is handled by a receiver that holds the key of the sender
\* (or none, as the sender), the exposed artifact equals the source file
\* byte for byte and the byte counter equals the announced size.
C17_RoundTrip ==
    (dEv = "done" /\ download # << >> /\ receiverKey = senderKey) =>
        /\ download[1].blob = sentFiles[download[1].name]
        /\ recvBytes = download[1].size

\* C21: in every reachable state, activePairs has an entry for a cid if and
\* only if an open receiver socket with that cid is in state active.
C21_PairIffActive ==
    \A c \in Cids :
        activePairs[c] # NoCid <=>
            \E i \in OpenIdx : ActiveReceiver(sockets[i]) /\ sockets[i].cid = c

\* the transition of the attachment state from a to b in the step that has
\* led to the event e, for a socket of the given role
StateEdge(role, a, b, e) ==
    \/ a = b
    \/ role = "answerer" /\ a = "waiting" /\ b = "active"
    \/ role = "answerer" /\ a = "active" /\ b = "done" /\ e = "transfer-done"
    \/ role = "answerer" /\ a = "active" /\ b = "waiting" /\ e = "close"

\* C22: the state of a receiver socket changes only along waiting -> active,
\* active -> done (transfer-done) and active -> waiting (close of the
\* offerer socket), and a socket that is not a receiver carries no state.
C22_StateTransitions ==
    [][\A i \in 1..Len(sockets'), j \in 1..Len(sockets) :
           sockets'[i].id = sockets[j].id =>
               /\ StateEdge(sockets[j].role, sockets[j].state, sockets'[i].state, ev')
               /\ (~IsAnswerer(sockets'[i]) => sockets'[i].state = "none")
      ]_vars

\* the socket whose close the step has handled
ClosedIds == SocketIds(sockets) \ SocketIds(sockets')

\* another open socket has the cid and the role of socket a
ReplacedBySameRole(a) ==
    \E j \in OpenIdx :
        sockets[j].id # a.id /\ sockets[j].cid = a.cid /\ sockets[j].role = a.role

PeersBroadcast(S, out) ==
    \A i \in 1..Len(S) :
        IsOpen(S[i]) =>
            InSeq(out, Frame(S[i].id, [type |-> "peers", count |-> Len(openSockets(S))]))

\* C23: after the close of an offerer socket that has no open replacement
\* with its cid, activePairs is empty, every open receiver socket is waiting
\* and has been sent wait, and peers{count} has gone to every open socket.
C23_SenderDeparture ==
    [][ev' = "close" =>
        \A id \in ClosedIds :
            (IsOfferer(SocketOf(sockets, id)) /\ ~ReplacedBySameRole(SocketOf(sockets, id))) =>
                /\ \A c \in Cids : activePairs'[c] = NoCid
                /\ \A i \in 1..Len(sockets') :
                       (IsOpen(sockets'[i]) /\ IsAnswerer(sockets'[i])) =>
                           /\ sockets'[i].state = "waiting"
                           /\ InSeq(sent', Frame(sockets'[i].id, [type |-> "wait"]))
                /\ PeersBroadcast(sockets', sent')
      ]_vars

\* the sender has left a room with a receiver that was done and is waiting
\* again, with a fresh wait
C23_Witness ==
    /\ ev = "close"
    /\ OffererIds(sockets) = {}
    /\ \E i \in OpenIdx :
           /\ IsAnswerer(sockets[i])
           /\ sockets[i].id \in doneLog
           /\ sockets[i].state = "waiting"
           /\ InSeq(sent, Frame(sockets[i].id, [type |-> "wait"]))

\* another open socket has the cid of socket a
ReplacedByCid(a) ==
    \E j \in OpenIdx : sockets[j].id # a.id /\ sockets[j].cid = a.cid

\* the waiting receivers of S no other waiting receiver precedes
OldestWaiting(S) ==
    {x \in SeqToSet(S) :
        /\ WaitingReceiver(x)
        /\ \A y \in SeqToSet(S) : WaitingReceiver(y) => x.joinedAt <= y.joinedAt}

\* C24: when the close of a receiver socket without replacement is handled,
\* its activePairs entry is removed, peer-left{peerId} with its cid goes to
\* the open sender, a slot it frees goes to the oldest waiting receiver
\* (with start), and peers{count} goes to every open socket.
C24_ReceiverDeparture ==
    [][ev' = "close" =>
        \A id \in ClosedIds :
            LET a == SocketOf(sockets, id) IN
            (IsAnswerer(a) /\ ~ReplacedByCid(a)) =>
                /\ activePairs'[a.cid] = NoCid
                /\ \A o \in OffererIds(sockets) \ {id} :
                       InSeq(sent', Frame(o, [type |-> "peer-left", peerId |-> a.cid]))
                /\ (/\ ActiveReceiver(a)
                    /\ OffererIds(sockets) # {}
                    /\ OldestWaiting(sockets) # {}) =>
                       \E w \in OldestWaiting(sockets) :
                           /\ IsActive(SocketOf(sockets', w.id))
                           /\ InSeq(sent', Frame(w.id, [type |-> "start"]))
                /\ PeersBroadcast(sockets', sent')
      ]_vars

\* C25: when the close of a socket is handled while another open socket has
\* its cid, no attachment and no activePairs entry changes and the frames
\* sent are the peers{count} broadcast and nothing else.
C25_ReplacedCloseIgnored ==
    [][ev' = "close" =>
        \A id \in ClosedIds :
            ReplacedByCid(SocketOf(sockets, id)) =>
                /\ sockets' = RemoveSocket(sockets, id)
                /\ activePairs' = activePairs
                /\ \A k \in 1..Len(sent') : sent'[k].frame.type = "peers"
                /\ PeersBroadcast(sockets', sent')
      ]_vars

\* C26: when fillSlots promotes a receiver and leaves waiting another one of
\* the same joinedAt, the promoted one has the smaller cid.
C26_TieBreakByCid ==
    [][\A i, j \in 1..Len(sockets') :
           (/\ PromotedNow(sockets'[i])
            /\ WaitingReceiver(sockets'[j])
            /\ sockets'[j].joinedAt = sockets'[i].joinedAt)
               => sockets'[i].cid < sockets'[j].cid
      ]_vars

\* C27: work conservation: after every handler, it is not the case that an
\* offerer socket is open, an open receiver is waiting and fewer receivers
\* than maxConcurrent are active.
C27_WorkConserving ==
    ~(/\ OffererIds(sockets) # {}
      /\ \E i \in OpenIdx : WaitingReceiver(sockets[i])
      /\ NumActive(sockets) < maxConcurrentOf(config))

WaitingId(id) == \E i \in OpenIdx : sockets[i].id = id /\ WaitingReceiver(sockets[i])

ActiveId(id) == \E i \in OpenIdx : sockets[i].id = id /\ ActiveReceiver(sockets[i])

\* C28: under fairness, a receiver that is waiting while a sender socket is
\* open is eventually promoted to active, unless its socket or the sender's
\* goes away first.
C28_NoStarvation ==
    \A id \in Ids :
        (WaitingId(id) /\ OffererIds(sockets) # {})
            ~> (ActiveId(id) \/ ~WaitingId(id) \/ OffererIds(sockets) = {})

\* the receiver endpoint of a relayed frame: the target of an offer, the
\* origin of an answer, and for a candidate the one of the two that is not
\* the offerer
ReceiverEnd(origin, target) ==
    IF IsOfferer(origin) THEN target ELSE origin

\* C29: whenever the Room relays an offer, answer or candidate, the receiver
\* socket of the pair is open and active.
C29_RelayOnlyWhenActive ==
    [][(ev' = "relay" /\ sent' # << >>) =>
        \A ws \in SocketIds(sockets), type \in RelayTypes, to \in RelayTargets, sid \in Sids :
            Relay(ws, type, to, sid) =>
                ActiveReceiver(ReceiverEnd(SocketOf(sockets, ws), SocketOf(sockets, sent'[1].to)))
      ]_vars

\* C30: after the re-instantiation of the Room with its sockets attached,
\* the maxConcurrent in force is the stored one and every open receiver
\* whose attachment state is active has its activePairs entry.
C30_RevivalKeepsPairs ==
    [][ev' = "revive" =>
        /\ storage # << >> => maxConcurrentOf(config') = storage[1].maxConcurrent
        /\ \A i \in OpenIdx :
               (ActiveReceiver(sockets[i]) /\ activePairs[sockets[i].cid] # NoCid) =>
                   activePairs'[sockets[i].cid] = activePairs[sockets[i].cid]
      ]_vars

\* C37: when the receiver handles done and builds the artifact, no binary
\* frame received before that done is still being decrypted: every one of
\* them has been appended to the reassembly buffer.
C37_DoneAfterAppends ==
    (dEv = "done" /\ incomingMeta # << >>) => decrypting = << >>

\* C38: once the receiver has handled done, the per-transfer state is reset:
\* there is no incoming meta, the reassembly buffer is empty and the byte
\* counter is zero, so that nothing is appended before the next meta.
C38_ResetAfterDone ==
    dEv = "done" => (incomingMeta = << >> /\ recvChunks = << >> /\ recvBytes = 0)

\* C39: when the receiver has taken in offer{from, sid} (the handler is at
\* its first await), the peer id it is bound to is `from` and its active sid
\* is `sid`, also when an earlier offer came from another cid.
C39_ReceiverBinding ==
    [][Len(rTasks') = Len(rTasks) + 1 =>
          LET offer == rTasks'[Len(rTasks')]
          IN  rPeerId' = offer.from /\ rActiveSid' = offer.sid]_vars

\* C40: when an addIceCandidate of a drain of the buffer fails, the error
\* is discarded and the handler that drains goes on: it is still in flight
\* after the failure, to apply the rest of the buffer and send its answer.
C40_CandidateErrorNotFatal ==
    [][rEv' = "addRejected" => Len(rTasks') = Len(rTasks)]_vars

\* the candidates of the context ctx, in the order they were pushed on its
\* buffer, and those of them handed to addIceCandidate, in the order of the calls
QueuedOf(ctx) == SelectSeq(queued, LAMBDA q : q.ctx = ctx)

DrainedOf(ctx) == SelectSeq(added, LAMBDA a : a.ctx = ctx /\ a.buffered)

\* the context ctx is in the map with its remote description set and no
\* handler of it is in flight: its drain is over
Drained(ctx) ==
    /\ \E p \in SendPeers :
          /\ offererPeers[p] # << >>
          /\ offererPeers[p][1].ctx = ctx
          /\ offererPeers[p][1].remoteDescSet
    /\ \A i \in 1..Len(sTasks) : sTasks[i].ctx # ctx

\* C31: on the sender an answer is handed to a context only with the active
\* sid of the context, a candidate is added only with the active sid and
\* after the remote description is set, and the candidates buffered before
\* are added in the order of their arrival, all of them once the drain is over.
C31_SenderFence ==
    /\ \A a \in applied : a.sid = a.at
    /\ \A k \in 1..Len(added) : added[k].sid = added[k].at /\ added[k].remoteDescSet
    /\ \A ctx \in 1..ctxCount :
          /\ Len(DrainedOf(ctx)) <= Len(QueuedOf(ctx))
          /\ \A k \in 1..Len(DrainedOf(ctx)) : DrainedOf(ctx)[k].cand = QueuedOf(ctx)[k].cand
          /\ Drained(ctx) => Len(DrainedOf(ctx)) = Len(QueuedOf(ctx))

\* C32: the sids of the offers the sender sends to one peer id are strictly
\* increasing in the order of sending, also across the contexts that
\* successive start frames create for that peer id.
C32_SidsIncrease ==
    \A i, j \in 1..Len(offers) :
        (i < j /\ offers[i].to = offers[j].to) => offers[i].sid < offers[j].sid

\* C33: every answer the sender hands to a peer context responds to the
\* offer of that same context, never to the offer of an earlier, closed
\* context of the same peer id.
C33_AnswerOfSameContext == \A a \in applied : a.of = a.ctx

\* C36: once the signalling socket of the sender is closed, the peer map is
\* empty: every peer context has been closed and removed.
C36_NoContextOutlivesSocket ==
    ~wsOpen => \A p \in SendPeers : offererPeers[p] = << >>

\* C34: no two transmissions are in flight at once on one peer context that
\* is not closed, and one file selection starts at most one transmission
\* (one meta frame) on each peer context.
C34_SendGuard ==
    /\ \A i, j \in 1..Len(xfers) :
          (i < j /\ xfers[i].ctx = xfers[j].ctx) => xfers[i].ctx \in closedCtx
    /\ \A i, j \in 1..Len(xferLog) : i < j => xferLog[i] # xferLog[j]

\* the frames of the transmission x, in the order they were sent
FramesOf(x) == SelectSeq(chanLog, LAMBDA f : f.x = x)

\* the transfer-done frames of the transmission x
DoneOf(x) == SelectSeq(wsDone, LAMBDA d : d.x = x)

\* C35: every transmission sends, on the channel of its context, one meta
\* frame, then its chunks in strictly ascending offset from 0, then at most
\* one done frame and nothing after it; and transfer-done is sent for it at
\* most once, with the peer id of its context, and only when its done frame
\* has been sent.
C35_TransmissionOrder ==
    \A x \in 1..Len(xferLog) :
        LET F == FramesOf(x)
            D == DoneOf(x)
        IN  /\ Len(F) >= 1
            /\ F[1].type = "meta"
            /\ \A k \in 1..Len(F) : F[k].ctx = xferLog[x].ctx
            /\ \A k \in 2..Len(F) :
                  /\ F[k].type # "meta"
                  /\ F[k - 1].type # "done"
                  /\ F[k].type = "bin" =>
                        IF F[k - 1].type = "bin"
                        THEN F[k - 1].offset < F[k].offset
                        ELSE F[k].offset = 0
            /\ Len(D) <= 1
            /\ \A n \in 1..Len(D) :
                  /\ D[n].peerId = xferLog[x].peerId
                  /\ F[Len(F)].type = "done"

\* a transmission of two chunks is over and reported
C35_Witness ==
    \E x \in 1..Len(xferLog) :
        /\ Len(FramesOf(x)) = 4
        /\ FramesOf(x)[2].type = "bin"
        /\ FramesOf(x)[3].type = "bin"
        /\ FramesOf(x)[4].type = "done"
        /\ Len(DoneOf(x)) = 1

====
